---------------------------- MODULE Spec2Model ----------------------------
(***************************************************************************)
(* The permanent-URI service of mfcoapi: the identifier map persisted in   *)
(* data/uri.json, the routes that register keys (browse, tree_view),       *)
(* resolve identifiers (get_file_by_permanent_uri) and index the bucket    *)
(* (bucket_uri_indexer, index_new_route), and the offline script           *)
(* generate_permanent_uris.py with its own map file.                       *)
(*                                                                         *)
(* Every route is an `async def` without an await between its load and its *)
(* save, and the indexer's try block has none either, so on the single     *)
(* event loop each handler runs to completion: one action per handler.     *)
(*                                                                         *)
(* Strings are modelled as sequences of tokens: "/" is the token "/", a    *)
(* file or directory name is one token.  Identifiers (21 random symbols)   *)
(* are modelled as the numbers 1..NumIds, a random draw as a               *)
(* nondeterministic choice.                                                *)
(***************************************************************************)
EXTENDS Integers, Sequences, FiniteSets, TLC

\* ------------------------------------------------------------------ bounds
\* Number of distinct identifiers generate_nanoid can draw in the model.
NumIds == 2

\* Number of collisions of one get_uri_for_key call that are counted.
MaxCollisions == 3

Ids == 1..NumIds

\* The content fingerprints (ETags) of the objects.  No code path reads the
\* ETag, so one fingerprint is enough to tell the same content under two keys.
Etags == {"etag-1"}

\* --------------------------------------------------------------- the bucket
\* The object keys the bucket may hold, in the order list_objects_v2 returns
\* them (UTF-8 byte order of the key).
AllKeys ==
    << <<"a">>,
       <<"d", "/">>,
       <<"d", "/", ".DS_Store">>,
       <<"d", "/", "b">> >>

Keys == {AllKeys[n] : n \in 1..Len(AllKeys)}

\* The bucket maps each key to its object's ETag, and to "" when it holds no
\* object under the key.
has_object(b, key) == b[key] \in Etags

\* str.lower() on one token (the only token with upper-case letters is the
\* Finder's ".DS_Store").
lower_token(tok) == IF tok = ".DS_Store" THEN ".ds_store" ELSE tok

\* str.lower()
lower(s) == [n \in 1..Len(s) |-> lower_token(s[n])]

\* str.endswith(suffix)
endswith(s, suffix) ==
    /\ Len(s) >= Len(suffix)
    /\ SubSeq(s, Len(s) - Len(suffix) + 1, Len(s)) = suffix

\* str.startswith(prefix)
startswith(s, prefix) ==
    /\ Len(s) >= Len(prefix)
    /\ SubSeq(s, 1, Len(prefix)) = prefix

\* A check for .DS_Store files that never finds one.
never_ds_store(key) == FALSE

\* key_lower.endswith("/.ds_store") or key_lower == ".ds_store"
is_ds_store(key) ==
    \/ endswith(lower(key), <<"/", ".ds_store">>)
    \/ lower(key) = <<".ds_store">>

\* A check for directory markers that never finds one.
never_directory_marker(key) == FALSE

\* key.endswith("/")
is_directory_marker(key) == endswith(key, <<"/">>)


\* Code-point order of the tokens, for Python's string comparison.
TokenOrder == <<".DS_Store", ".ds_store", "/", "a", "b", "d">>

token_rank(tok) == CHOOSE n \in 1..Len(TokenOrder) : TokenOrder[n] = tok

\* s < t on strings
RECURSIVE str_lt(_, _)
str_lt(s, t) ==
    IF t = <<>> THEN FALSE
    ELSE IF s = <<>> THEN TRUE
    ELSE IF s[1] = t[1] THEN str_lt(Tail(s), Tail(t))
    ELSE token_rank(s[1]) < token_rank(t[1])

\* list.sort(key=...) / sorted(..., key=...) on a list of (sort key, item)
\* pairs: a stable insertion sort on the sort key.
RECURSIVE insert_sorted(_, _)
insert_sorted(x, seq) ==
    IF seq = <<>> THEN <<x>>
    ELSE IF str_lt(x[1], seq[1][1]) THEN <<x>> \o seq
    ELSE <<seq[1]>> \o insert_sorted(x, Tail(seq))

RECURSIVE sort_pairs(_)
sort_pairs(seq) ==
    IF seq = <<>> THEN <<>>
    ELSE insert_sorted(seq[Len(seq)], sort_pairs(SubSeq(seq, 1, Len(seq) - 1)))

\* The items of the sorted pairs.
sorted(pairs) == [n \in 1..Len(pairs) |-> sort_pairs(pairs)[n][2]]

\* if prefix and not prefix.endswith("/"): prefix += "/"
normalize_prefix(prefix) ==
    IF prefix # <<>> /\ ~endswith(prefix, <<"/">>) THEN prefix \o <<"/">> ELSE prefix

\* The objects of bucket b, in listing order, as list_objects_v2 pages them.
AllObjects(b) ==
    LET present(k) == has_object(b, k)
    IN  [n \in 1..Len(SelectSeq(AllKeys, present)) |->
            [Key |-> SelectSeq(AllKeys, present)[n],
             ETag |-> b[SelectSeq(AllKeys, present)[n]]]]

\* paginator.paginate(Bucket=DO_BUCKET, Prefix=prefix): page.get("Contents")
list_objects_v2(b, prefix) ==
    LET under(o) == startswith(o.Key, prefix)
    IN  SelectSeq(AllObjects(b), under)

\* paginator.paginate(Bucket=DO_BUCKET, Prefix=prefix, Delimiter="/"):
\* "Contents" holds the keys with no delimiter after the prefix, the others
\* are rolled up into "CommonPrefixes".
list_objects_v2_delimited(b, prefix) ==
    LET rest(o) == SubSeq(o.Key, Len(prefix) + 1, Len(o.Key))
        direct(o) ==
            /\ startswith(o.Key, prefix)
            /\ \A n \in 1..Len(rest(o)) : rest(o)[n] # "/"
    IN  SelectSeq(AllObjects(b), direct)

\* list_prefix: the files of (folders, files); the folders are only rendered.
list_prefix(b, prefix0) ==
    LET prefix == normalize_prefix(prefix0)
        keep(o) == o.Key # prefix /\ ~is_ds_store(o.Key)
        files == SelectSeq(list_objects_v2_delimited(b, prefix), keep)
        display_name(o) == SubSeq(o.Key, Len(prefix) + 1, Len(o.Key))
    IN  sorted([n \in 1..Len(files) |-> <<lower(display_name(files[n])), files[n]>>])

\* get_recursive_file_tree: the files under prefix, sorted by full_path.
get_recursive_file_tree(b, prefix0) ==
    LET prefix == normalize_prefix(prefix0)
        keep(o) == ~is_directory_marker(o.Key) /\ ~is_ds_store(o.Key)
        all_files == SelectSeq(list_objects_v2(b, prefix), keep)
    IN  sorted([n \in 1..Len(all_files) |-> <<all_files[n].Key, all_files[n]>>])

\* list_all_files_in_prefix of generate_permanent_uris.py
list_all_files_in_prefix(b, prefix) ==
    LET keep(o) == ~is_directory_marker(o.Key) /\ ~is_ds_store(o.Key)
    IN  SelectSeq(list_objects_v2(b, prefix), keep)

\* ------------------------------------------------------------ the map store
\* The map file does not exist.
NoFile == [exists |-> FALSE, text |-> {}]

\* The empty dict.
EmptyMap == << >>

\* A serialization that writes no member after the first.
json_dumps_first_member(m) ==
    {<<i, m[i]>> : i \in {j \in DOMAIN m : \A k \in DOMAIN m : j <= k}}

\* json.dumps(uri_map): the JSON object, as its set of members (name, value).
json_dumps(m) == {<<i, m[i]>> : i \in DOMAIN m}

\* json.loads(text): the dict of the JSON object's members.
json_loads(text) ==
    [i \in {p[1] : p \in text} |-> (CHOOSE p \in text : p[1] = i)[2]]

\* load_uri_map / load_permanent_uri_map
load_uri_map(file) == IF file.exists THEN json_loads(file.text) ELSE EmptyMap

\* save_uri_map / save_permanent_uri_map: the file's new content.
save_uri_map(m) == [exists |-> TRUE, text |-> json_dumps(m)]

\* set(uri_map.values())
values(m) == {m[i] : i \in DOMAIN m}

\* An assignment that keeps no other member of the dict.
setitem_alone(m, i, k) == [j \in {i} |-> k]

\* uri_map[new_id] = s3_key
setitem(m, i, k) == [j \in DOMAIN m \cup {i} |-> IF j = i THEN k ELSE m[j]]

\* A deletion that empties the dict.
delitem_clear(m, i) == [j \in {} |-> m[j]]

\* A deletion that deletes nothing.
delitem_noop(m, i) == m

\* del uri_map[uri_id]
delitem(m, i) == [j \in DOMAIN m \ {i} |-> m[j]]

\* --------------------------------------------------- registration, indexing
\* get_uri_for_key without the scan for an identifier the key already has.
get_uri_for_key_no_scan(s3_key, uri_map) ==
    {[id |-> new_id, map |-> setitem(uri_map, new_id, s3_key)] :
        new_id \in Ids \ DOMAIN uri_map}

\* get_uri_for_key without the re-draw of a candidate that is in the map.
get_uri_for_key_no_redraw(s3_key, uri_map) ==
    LET found == {uri_id \in DOMAIN uri_map : uri_map[uri_id] = s3_key}
    IN  IF found # {}
        THEN {[id |-> uri_id, map |-> uri_map] : uri_id \in found}
        ELSE {[id |-> new_id, map |-> setitem(uri_map, new_id, s3_key)] : new_id \in Ids}

\* get_uri_for_key / get_permanent_uri_for_key: the possible outcomes
\* [id, map] of one call.  The scan returns the first identifier whose value is
\* s3_key (any of them here, the dict's order is not modelled); otherwise
\* generate_nanoid is drawn again while the candidate is in the map, so the
\* new identifier is any identifier that is not in the map.
get_uri_for_key(s3_key, uri_map) ==
    LET found == {uri_id \in DOMAIN uri_map : uri_map[uri_id] = s3_key}
    IN  IF found # {}
        THEN {[id |-> uri_id, map |-> uri_map] : uri_id \in found}
        ELSE {[id |-> new_id, map |-> setitem(uri_map, new_id, s3_key)] :
                 new_id \in Ids \ DOMAIN uri_map}

\* The loop of browse and tree_view:
\*     for file_obj in files:
\*         file_obj["permanent_uri_id"] = get_uri_for_key(s3_key, uri_map)
\* The possible outcomes [ids, map]; ids[n] is the identifier given to files[n].
RECURSIVE register_files(_, _)
register_files(files, uri_map) ==
    IF files = <<>> THEN {[ids |-> <<>>, map |-> uri_map]}
    ELSE UNION {
            {[ids |-> <<o.id>> \o r.ids, map |-> r.map] :
                r \in register_files(Tail(files), o.map)} :
            o \in get_uri_for_key(files[1].Key, uri_map)}

\* The loop of add_uris_for_new_files, from the state (uri_map, changes_made).
RECURSIVE add_uris_loop(_, _, _, _)
add_uris_loop(all_files, existing_keys, uri_map, changes_made) ==
    IF all_files = <<>> THEN {[map |-> uri_map, changes_made |-> changes_made]}
    ELSE LET s3_key == all_files[1].Key
         IN  IF is_ds_store(s3_key)
             THEN add_uris_loop(Tail(all_files), existing_keys, uri_map, changes_made)
             ELSE IF is_directory_marker(s3_key)
             THEN add_uris_loop(Tail(all_files), existing_keys, uri_map, changes_made)
             ELSE IF s3_key \notin existing_keys
             THEN UNION {add_uris_loop(Tail(all_files), existing_keys, o.map, TRUE) :
                            o \in get_uri_for_key(s3_key, uri_map)}
             ELSE add_uris_loop(Tail(all_files), existing_keys, uri_map, changes_made)

\* add_uris_for_new_files that first drops the entries whose key is not in
\* the listing.
add_uris_for_new_files_pruning(all_files, uri_map) ==
    LET listed == {all_files[n].Key : n \in 1..Len(all_files)}
        kept == [i \in {j \in DOMAIN uri_map : uri_map[j] \in listed} |-> uri_map[i]]
    IN  add_uris_loop(all_files, values(kept), kept, kept # uri_map)

\* add_uris_for_new_files that reports changes whatever it did.
add_uris_for_new_files_always_changed(all_files, uri_map) ==
    {[map |-> o.map, changes_made |-> TRUE] :
        o \in add_uris_loop(all_files, values(uri_map), uri_map, FALSE)}

\* add_uris_for_new_files with an empty existing_keys.
add_uris_for_new_files_no_existing(all_files, uri_map) ==
    add_uris_loop(all_files, {}, uri_map, FALSE)

\* add_uris_for_new_files: the possible outcomes [map, changes_made].
add_uris_for_new_files(all_files, uri_map) ==
    add_uris_loop(all_files, values(uri_map), uri_map, FALSE)

\* The loop of generate_uris_for_repository, from (uri_map, new_mappings).
RECURSIVE generate_uris_loop(_, _, _, _)
generate_uris_loop(all_files, existing_keys, uri_map, new_mappings) ==
    IF all_files = <<>> THEN {[map |-> uri_map, new_mappings |-> new_mappings]}
    ELSE IF all_files[1].Key \notin existing_keys
    THEN UNION {generate_uris_loop(Tail(all_files), existing_keys, o.map, new_mappings + 1) :
                   o \in get_uri_for_key(all_files[1].Key, uri_map)}
    ELSE generate_uris_loop(Tail(all_files), existing_keys, uri_map, new_mappings)

\* repository_prefix of generate_uris_for_repository
\* ("appomattox/repositories/APXV1-ALICE/"): the bucket's one directory here.
repository_prefix == <<"d", "/">>

\* The prefixes a browse or tree request names.
Prefixes == {<<>>, <<"d">>, <<"d", "/">>}

\* ------------------------------------------------------------------- state
VARIABLES
    bucket,              \* the object store: key -> ETag, or ""
    URI_MAP_FILE,        \* data/uri.json
    PERMANENT_URI_MAP_FILE, \* data/permanent_uri_map.json
    resp,                \* the latest operation's HTTP response, or its log line
                         \* (status 0)
    snapshot,            \* history: the files the latest indexing run considered
    removed,             \* history: the entry the latest self-healing deletion removed
    tasks,               \* the coroutines and processes followed step by step:
                         \* name -> its position (pc) and its local variables
    missed               \* history: the entries whose key a run's listing missed

vars == <<bucket, URI_MAP_FILE, PERMANENT_URI_MAP_FILE, resp, snapshot, removed,
          tasks, missed>>

\* The variables the handlers taken as one step leave alone.
stepwise == <<tasks, missed>>

\* The map the service would load now.
uri_map == load_uri_map(URI_MAP_FILE)

\* The map the script would load now.
permanent_uri_map == load_uri_map(PERMANENT_URI_MAP_FILE)

\* The service has just started (startup_event has created the indexer task,
\* no request is in flight) and no script is running.
InitTasks ==
    [bucket_uri_indexer |-> [pc |-> "list"],
     index_new_route |-> [pc |-> "idle"],
     browse |-> [pc |-> "idle"],
     tree_view |-> [pc |-> "idle"],
     get_file_by_permanent_uri |-> [pc |-> "idle"],
     generate_permanent_uris |-> [pc |-> "exit"]]

Init ==
    /\ bucket = [k \in Keys |-> ""]
    /\ URI_MAP_FILE = NoFile
    /\ PERMANENT_URI_MAP_FILE = NoFile
    /\ resp = [status |-> 0]
    /\ snapshot = <<>>
    /\ removed = <<>>
    /\ tasks = InitTasks
    /\ missed = {}

\* ------------------------------------------------------- the object store
\* An upload (or overwrite) of key with content of fingerprint etag.
put_object(key, etag) ==
    /\ bucket[key] # etag
    /\ bucket' = [bucket EXCEPT ![key] = etag]
    /\ UNCHANGED <<URI_MAP_FILE, PERMANENT_URI_MAP_FILE, resp, snapshot, removed>>

\* A deletion of key.
delete_object(key) ==
    /\ has_object(bucket, key)
    /\ bucket' = [bucket EXCEPT ![key] = ""]
    /\ UNCHANGED <<URI_MAP_FILE, PERMANENT_URI_MAP_FILE, resp, snapshot, removed>>

\* s3.head_object(Bucket=DO_BUCKET, Key=s3_key): what the call can do.
\* "ok" returns, "NoSuchKey" raises s3.exceptions.NoSuchKey, "error" raises
\* any other exception (a failed request, or a missing key the client reports
\* by another error than NoSuchKey).
head_object(b, s3_key) ==
    IF has_object(b, s3_key) THEN {"ok", "error"} ELSE {"NoSuchKey", "error"}

\* s3.generate_presigned_url(...): the URL is computed from the key alone,
\* without a request to the store.
generate_presigned_url(s3_key) == <<"presigned", s3_key>>

\* --------------------------------------------------------------- the routes
\* The files as the page shows them: each with its permanent_uri_id.
with_uri_ids(files, ids) ==
    [n \in 1..Len(files) |-> [Key |-> files[n].Key, permanent_uri_id |-> ids[n]]]

\* browse and tree_view without the save.
register_without_save(files) ==
    \E o \in register_files(files, load_uri_map(URI_MAP_FILE)) :
        /\ UNCHANGED URI_MAP_FILE
        /\ resp' = [status |-> 200, files |-> with_uri_ids(files, o.ids)]

\* What browse and tree_view do with the listed files: load the map,
\* get_uri_for_key for each file, save the map (always).
register_and_save(files) ==
    \E o \in register_files(files, load_uri_map(URI_MAP_FILE)) :
        /\ URI_MAP_FILE' = save_uri_map(o.map)
        /\ resp' = [status |-> 200, files |-> with_uri_ids(files, o.ids)]

\* GET /browse/{prefix}.  s3_ok: the listing calls succeed; when they raise,
\* the request fails before the map is loaded.
browse(prefix, s3_ok) ==
    /\ IF s3_ok
       THEN register_and_save(list_prefix(bucket, prefix))
       ELSE /\ resp' = [status |-> 500]
            /\ UNCHANGED URI_MAP_FILE
    /\ UNCHANGED <<bucket, PERMANENT_URI_MAP_FILE, snapshot, removed>>

\* GET /tree/{prefix}.  authenticated: the X-Access-Key header or the
\* access_key parameter equals USER_NS_KEY.
tree_view(prefix, authenticated, s3_ok) ==
    /\ IF ~authenticated
       THEN /\ resp' = [status |-> 401]
            /\ UNCHANGED URI_MAP_FILE
       ELSE IF s3_ok
       THEN register_and_save(get_recursive_file_tree(bucket, prefix))
       ELSE /\ resp' = [status |-> 500]
            /\ UNCHANGED URI_MAP_FILE
    /\ UNCHANGED <<bucket, PERMANENT_URI_MAP_FILE, snapshot, removed>>

\* get_file_by_permanent_uri removing the entry whatever head_object does.
get_file_outcome_heal_always(uri_id, head) ==
    LET loaded == load_uri_map(URI_MAP_FILE)
    IN  /\ URI_MAP_FILE' = save_uri_map(delitem(loaded, uri_id))
        /\ removed' = <<uri_id, loaded[uri_id]>>
        /\ resp' = IF head = "ok"
                   THEN [status |-> 307, location |-> generate_presigned_url(loaded[uri_id])]
                   ELSE IF head = "NoSuchKey"
                   THEN [status |-> 404, detail |-> "File no longer exists"]
                   ELSE [status |-> 500, detail |-> "Failed to generate presigned URL"]

\* GET /file/{uri_id} when head_object does `head` for the mapped key.
get_file_outcome(uri_id, head) ==
    LET loaded == load_uri_map(URI_MAP_FILE)
        s3_key == loaded[uri_id]
        reloaded == load_uri_map(URI_MAP_FILE)
    IN  IF head = "ok"
        THEN /\ resp' = [status |-> 307, location |-> generate_presigned_url(s3_key)]
             /\ UNCHANGED <<URI_MAP_FILE, removed>>
        ELSE IF head = "NoSuchKey"
        THEN /\ IF uri_id \in DOMAIN reloaded
                THEN /\ URI_MAP_FILE' = save_uri_map(delitem(reloaded, uri_id))
                     /\ removed' = <<uri_id, reloaded[uri_id]>>
                ELSE UNCHANGED <<URI_MAP_FILE, removed>>
             /\ resp' = [status |-> 404, detail |-> "File no longer exists"]
        ELSE /\ resp' = [status |-> 500, detail |-> "Failed to generate presigned URL"]
             /\ UNCHANGED <<URI_MAP_FILE, removed>>

\* GET /file/{uri_id}
get_file_by_permanent_uri(uri_id) ==
    /\ IF uri_id \notin DOMAIN load_uri_map(URI_MAP_FILE)
       THEN /\ resp' = [status |-> 404, detail |-> "URI not found"]
            /\ UNCHANGED <<URI_MAP_FILE, removed>>
       ELSE \E head \in head_object(bucket, load_uri_map(URI_MAP_FILE)[uri_id]) :
               get_file_outcome(uri_id, head)
    /\ UNCHANGED <<bucket, PERMANENT_URI_MAP_FILE, snapshot>>

\* The files of a listing that add_uris_for_new_files does not skip.
considered(all_files) ==
    LET keep(o) == ~is_ds_store(o.Key) /\ ~is_directory_marker(o.Key)
    IN  SelectSeq(all_files, keep)

\* index_new_files: list the whole bucket, load the map,
\* add_uris_for_new_files, save if changes were made; the stats returned.
index_new_files ==
    LET all_files == list_objects_v2(bucket, <<>>)
        loaded == load_uri_map(URI_MAP_FILE)
    IN  \E o \in add_uris_for_new_files(all_files, loaded) :
           /\ URI_MAP_FILE' = IF o.changes_made THEN save_uri_map(o.map) ELSE URI_MAP_FILE
           /\ snapshot' = considered(all_files)
           /\ resp' = [status |-> 200,
                       stats |-> [total_files_scanned |-> Len(all_files),
                                  existing_uris |-> Cardinality(DOMAIN loaded),
                                  new_uris_added |-> Cardinality(DOMAIN o.map)
                                                     - Cardinality(DOMAIN loaded),
                                  total_uris |-> Cardinality(DOMAIN o.map)]]

\* One iteration of bucket_uri_indexer's loop: the same steps, the outcome
\* logged; an exception is logged and the iteration ends.
bucket_uri_indexer(s3_ok) ==
    /\ IF s3_ok
       THEN LET all_files == list_objects_v2(bucket, <<>>)
            IN  \E o \in add_uris_for_new_files(all_files, load_uri_map(URI_MAP_FILE)) :
                   /\ URI_MAP_FILE' =
                         IF o.changes_made THEN save_uri_map(o.map) ELSE URI_MAP_FILE
                   /\ snapshot' = considered(all_files)
                   /\ resp' = [status |-> 0,
                               log |-> IF o.changes_made
                                 THEN "Updated URI mappings during hourly scan"
                                 ELSE "No new files found during hourly scan"]
       ELSE /\ resp' = [status |-> 0, log |-> "Error during URI indexing"]
            /\ UNCHANGED <<URI_MAP_FILE, snapshot>>
    /\ UNCHANGED <<bucket, PERMANENT_URI_MAP_FILE, removed>>

\* POST /index-new: index_new_files behind the access-key check.
index_new_route(authenticated, s3_ok) ==
    /\ IF ~authenticated
       THEN /\ resp' = [status |-> 401]
            /\ UNCHANGED <<URI_MAP_FILE, snapshot>>
       ELSE IF s3_ok
       THEN index_new_files
       ELSE /\ resp' = [status |-> 500]
            /\ UNCHANGED <<URI_MAP_FILE, snapshot>>
    /\ UNCHANGED <<bucket, PERMANENT_URI_MAP_FILE, removed>>

\* A run of the script generate_permanent_uris.py.
generate_uris_for_repository(s3_ok) ==
    /\ IF s3_ok
       THEN LET listed == list_all_files_in_prefix(bucket, repository_prefix)
                loaded == load_uri_map(PERMANENT_URI_MAP_FILE)
            IN  \E o \in generate_uris_loop(listed, values(loaded), loaded, 0) :
                   /\ PERMANENT_URI_MAP_FILE' = save_uri_map(o.map)
                   /\ resp' = [status |-> 0, log |-> "Completed!",
                               new_mappings |-> o.new_mappings]
       ELSE /\ resp' = [status |-> 0, log |-> "Script failed"]
            /\ UNCHANGED PERMANENT_URI_MAP_FILE
    /\ UNCHANGED <<bucket, URI_MAP_FILE, snapshot, removed>>

\* ------------------------------------------------------- the specifications
PutObject ==
    /\ \E key \in Keys : \E etag \in Etags : put_object(key, etag)
    /\ UNCHANGED stepwise

DeleteObject ==
    /\ \E key \in Keys : delete_object(key)
    /\ UNCHANGED stepwise

Browse ==
    /\ \E prefix \in Prefixes : \E s3_ok \in BOOLEAN : browse(prefix, s3_ok)
    /\ UNCHANGED stepwise

TreeView ==
    /\ \E prefix \in Prefixes : \E authenticated, s3_ok \in BOOLEAN :
          tree_view(prefix, authenticated, s3_ok)
    /\ UNCHANGED stepwise

Resolve ==
    /\ \E uri_id \in Ids : get_file_by_permanent_uri(uri_id)
    /\ UNCHANGED stepwise

ScheduledRun ==
    /\ \E s3_ok \in BOOLEAN : bucket_uri_indexer(s3_ok)
    /\ UNCHANGED stepwise

OnDemandRun ==
    /\ \E authenticated, s3_ok \in BOOLEAN : index_new_route(authenticated, s3_ok)
    /\ UNCHANGED stepwise

ScriptRun ==
    /\ \E s3_ok \in BOOLEAN : generate_uris_for_repository(s3_ok)
    /\ UNCHANGED stepwise

\* The service (main.py) and its bucket.
Next ==
    \/ PutObject
    \/ DeleteObject
    \/ Browse
    \/ TreeView
    \/ Resolve
    \/ ScheduledRun
    \/ OnDemandRun

Spec == Init /\ [][Next]_vars

\* The script (generate_permanent_uris.py) and the bucket; it reads and writes
\* its own map file and shares nothing else with the service.
ScriptNext ==
    \/ PutObject
    \/ DeleteObject
    \/ ScriptRun

ScriptSpec == Init /\ [][ScriptNext]_vars

\* --------------------------------------------- the save, write by write
\* Path.write_text(data) is open(path, "w"), write(data), close(): the open
\* truncates the file to nothing, the text reaches the file when the buffer is
\* flushed (as it fills, and at the close).  Until the close the file holds a
\* cut-short text: the members written so far, without the closing brace.
Truncated(text) == [exists |-> TRUE, text |-> text, truncated |-> TRUE]

\* json.loads raises JSONDecodeError on a cut-short text (the empty text
\* included).
raises_JSONDecodeError(file) == "truncated" \in DOMAIN file

\* The texts a file can hold while `data` is being written to it and is not
\* yet written whole.
partly_written(data) == {Truncated(text) : text \in (SUBSET data) \ {data}}

\* generate_permanent_uris.py up to the open of its save: load the map (a
\* cut-short file ends the script), list the repository, give each new file an
\* identifier, open the map file for writing.
generate_uris_open(s3_ok) ==
    /\ tasks.generate_permanent_uris.pc = "exit"
    /\ IF raises_JSONDecodeError(PERMANENT_URI_MAP_FILE) \/ ~s3_ok
       THEN /\ resp' = [status |-> 0, log |-> "Script failed"]
            /\ UNCHANGED <<PERMANENT_URI_MAP_FILE, tasks>>
       ELSE LET loaded == load_uri_map(PERMANENT_URI_MAP_FILE)
                listed == list_all_files_in_prefix(bucket, repository_prefix)
            IN  \E o \in generate_uris_loop(listed, values(loaded), loaded, 0) :
                   /\ PERMANENT_URI_MAP_FILE' = Truncated({})
                   /\ tasks' = [tasks EXCEPT !.generate_permanent_uris =
                                   [pc |-> "write_text",
                                    before |-> loaded,
                                    uri_map |-> o.map,
                                    new_mappings |-> o.new_mappings]]
                   /\ resp' = [status |-> 0, log |-> "Saving updated permanent URI map..."]
    /\ UNCHANGED <<bucket, URI_MAP_FILE, snapshot, removed, missed>>

\* The close of the save: the whole text is in the file, the script logs its
\* count and ends.
generate_uris_close ==
    /\ tasks.generate_permanent_uris.pc = "write_text"
    /\ PERMANENT_URI_MAP_FILE' = save_uri_map(tasks.generate_permanent_uris.uri_map)
    /\ resp' = [status |-> 0, log |-> "Completed!",
                new_mappings |-> tasks.generate_permanent_uris.new_mappings]
    /\ tasks' = [tasks EXCEPT !.generate_permanent_uris = [pc |-> "exit"]]
    /\ UNCHANGED <<bucket, URI_MAP_FILE, snapshot, removed, missed>>

\* "https://mfcoapi.com/file/" + nanoid
full_url(nanoid) == <<"https://mfcoapi.com/file/", nanoid>>

\* generate_full_url_map.py, run as a process of its own: load the map file
\* of generate_permanent_uris.py as it is now and derive the map of full URLs.
generate_full_url_map ==
    /\ IF raises_JSONDecodeError(PERMANENT_URI_MAP_FILE)
       THEN resp' = [status |-> 0, log |-> "Script failed"]
       ELSE LET loaded == load_uri_map(PERMANENT_URI_MAP_FILE)
            IN  resp' = [status |-> 0,
                         log |-> "Full URL map generation completed successfully!",
                         full_url_map |->
                            [nanoid \in DOMAIN loaded |->
                                [url |-> full_url(nanoid), path |-> loaded[nanoid]]]]
    /\ UNCHANGED <<bucket, URI_MAP_FILE, PERMANENT_URI_MAP_FILE, snapshot, removed,
                   tasks, missed>>

GenerateUrisOpen == \E s3_ok \in BOOLEAN : generate_uris_open(s3_ok)

\* The two scripts as two processes over data/permanent_uri_map.json, and the
\* bucket.
ScriptsNext ==
    \/ PutObject
    \/ DeleteObject
    \/ GenerateUrisOpen
    \/ generate_uris_close
    \/ generate_full_url_map

ScriptsSpec == Init /\ [][ScriptsNext]_vars

\* ------------------------------------- the indexing runs, step by step
\* The coroutines on the one event loop of the service that load and save
\* the map: the task of bucket_uri_indexer and the handlers of POST
\* /index-new, GET /browse, GET /tree and GET /file.  A run of
\* add_uris_for_new_files is at "list" (about to list the bucket), "load"
\* (about to load the map), "save" (about to open the map file) or
\* "write_text" (the file is open); the indexer between two runs is at
\* "sleep", a handler without a request at "idle".
Coroutines ==
    {"bucket_uri_indexer", "index_new_route", "browse", "tree_view",
     "get_file_by_permanent_uri"}

\* Where a coroutine is when it is not in a run.
suspended_at(task) == IF task = "bucket_uri_indexer" THEN "sleep" ELSE "idle"

\* Positions that are no await, taken for awaits.
suspended_anywhere(pc) == TRUE

\* The coroutine is suspended: the indexer in its one await,
\* `await asyncio.sleep(interval)`; the route's handler has no await and is
\* off the loop only when no request is being handled.
suspended(pc) == pc \in {"sleep", "idle"}

\* The event loop can start or resume `task`: every other coroutine is
\* suspended.
loop_free(task) == \A t \in Coroutines \ {task} : suspended(tasks[t].pc)

\* The timer of asyncio.sleep(interval) has expired and the loop resumes the
\* indexer: the next iteration of `while True` begins.
wake ==
    /\ tasks.bucket_uri_indexer.pc = "sleep"
    /\ loop_free("bucket_uri_indexer")
    /\ tasks' = [tasks EXCEPT !.bucket_uri_indexer = [pc |-> "list"]]
    /\ UNCHANGED <<bucket, URI_MAP_FILE, PERMANENT_URI_MAP_FILE, resp, snapshot,
                   removed, missed>>

\* A POST /index-new request arrives and its handler starts: the access-key
\* check, then index_new_files.
request(authenticated) ==
    /\ tasks.index_new_route.pc = "idle"
    /\ loop_free("index_new_route")
    /\ IF authenticated
       THEN /\ tasks' = [tasks EXCEPT !.index_new_route = [pc |-> "list"]]
            /\ UNCHANGED resp
       ELSE /\ resp' = [status |-> 401]
            /\ UNCHANGED tasks
    /\ UNCHANGED <<bucket, URI_MAP_FILE, PERMANENT_URI_MAP_FILE, snapshot, removed, missed>>

\* An exception that ends the indexer's task instead of its iteration.
raised_uncaught(task) ==
    /\ resp' = [status |-> 500]
    /\ tasks' = [tasks EXCEPT ![task] = [pc |-> "done"]]

\* An exception in the run: the indexer's `except Exception` logs it and the
\* iteration goes on to the sleep; the route answers 500.
raised(task) ==
    /\ resp' = IF task = "bucket_uri_indexer"
               THEN [status |-> 0, log |-> "Error during URI indexing"]
               ELSE [status |-> 500]
    /\ tasks' = [tasks EXCEPT ![task] = [pc |-> suspended_at(task)]]

\* The save is done, or there was nothing to save: the indexer logs its line
\* and goes to sleep, the route returns the stats of index_new_files, browse
\* and tree_view their page, the resolution its 404.
completed(task, changes_made, returns) ==
    /\ resp' = IF task = "bucket_uri_indexer"
               THEN [status |-> 0,
                     log |-> IF changes_made
                             THEN "Updated URI mappings during hourly scan"
                             ELSE "No new files found during hourly scan"]
               ELSE IF task = "index_new_route"
               THEN [status |-> 200, stats |-> returns]
               ELSE IF task \in {"browse", "tree_view"}
               THEN [status |-> 200, files |-> returns]
               ELSE [status |-> 404, detail |-> "File no longer exists"]
    /\ tasks' = [tasks EXCEPT ![task] = [pc |-> suspended_at(task)]]

\* paginator.paginate(Bucket=DO_BUCKET) into all_files; s3_ok: no call raises.
run_list(task, s3_ok) ==
    /\ tasks[task].pc = "list"
    /\ IF s3_ok
       THEN /\ tasks' = [tasks EXCEPT ![task] =
                            [pc |-> "load", all_files |-> list_objects_v2(bucket, <<>>)]]
            /\ UNCHANGED resp
       ELSE raised(task)
    /\ UNCHANGED <<bucket, URI_MAP_FILE, PERMANENT_URI_MAP_FILE, snapshot, removed, missed>>

\* The stats of index_new_files.
stats_of(all_files, initial_count, final_count) ==
    [total_files_scanned |-> Len(all_files),
     existing_uris |-> initial_count,
     new_uris_added |-> final_count - initial_count,
     total_uris |-> final_count]

\* uri_map = load_uri_map(); changes_made = add_uris_for_new_files(all_files,
\* uri_map); without changes the run is over.  (before: the file as loaded,
\* kept as history.)
run_load(task) ==
    /\ tasks[task].pc = "load"
    /\ IF raises_JSONDecodeError(URI_MAP_FILE)
       THEN raised(task)
       ELSE LET all_files == tasks[task].all_files
                loaded == load_uri_map(URI_MAP_FILE)
                initial_count == Cardinality(DOMAIN loaded)
            IN  \E o \in add_uris_for_new_files(all_files, loaded) :
                   IF o.changes_made
                   THEN /\ tasks' = [tasks EXCEPT ![task] =
                               [pc |-> "save", uri_map |-> o.map,
                                before |-> URI_MAP_FILE,
                                returns |-> stats_of(all_files, initial_count,
                                                     Cardinality(DOMAIN o.map))]]
                        /\ UNCHANGED resp
                   ELSE completed(task, FALSE,
                                  stats_of(all_files, initial_count, initial_count))
    /\ UNCHANGED <<bucket, URI_MAP_FILE, PERMANENT_URI_MAP_FILE, snapshot, removed, missed>>

\* save_uri_map: the open of write_text.  ok: the open succeeds and truncates
\* the file; otherwise it raises OSError and the file is as it was.
run_open(task, ok) ==
    /\ tasks[task].pc = "save"
    /\ IF ok
       THEN /\ URI_MAP_FILE' = Truncated({})
            /\ tasks' = [tasks EXCEPT ![task].pc = "write_text"]
            /\ UNCHANGED resp
       ELSE /\ raised(task)
            /\ UNCHANGED URI_MAP_FILE
    /\ UNCHANGED <<bucket, PERMANENT_URI_MAP_FILE, snapshot, removed, missed>>

\* save_uri_map: a part of the text is flushed to the file as the buffer fills.
run_flush(task) ==
    /\ tasks[task].pc = "write_text"
    /\ \E file \in partly_written(json_dumps(tasks[task].uri_map)) :
          /\ URI_MAP_FILE.text \subseteq file.text
          /\ URI_MAP_FILE.text # file.text
          /\ URI_MAP_FILE' = file
    /\ UNCHANGED <<bucket, PERMANENT_URI_MAP_FILE, resp, snapshot, removed, tasks, missed>>

\* save_uri_map: the rest of the text is flushed and the file closed.  ok: the
\* write succeeds and the run is over; otherwise it raises OSError (the disk
\* is full, say) and the file keeps the text cut short.
run_close(task, ok) ==
    /\ tasks[task].pc = "write_text"
    /\ IF ok
       THEN /\ URI_MAP_FILE' = save_uri_map(tasks[task].uri_map)
            /\ completed(task, TRUE, tasks[task].returns)
       ELSE /\ raised(task)
            /\ UNCHANGED URI_MAP_FILE
    /\ UNCHANGED <<bucket, PERMANENT_URI_MAP_FILE, snapshot, removed, missed>>

\* The service's process is killed (SIGKILL, a power cut, the reloader of
\* uvicorn.run(reload=True) ending the worker) and started again: the files
\* are as the kill left them, the startup creates the indexer task anew.
crash ==
    /\ tasks' = InitTasks
    /\ UNCHANGED <<bucket, URI_MAP_FILE, PERMANENT_URI_MAP_FILE, resp, snapshot,
                   removed, missed>>

\* GET /browse/{prefix}: the handler starts and lists the prefix.
browse_list(prefix, s3_ok) ==
    /\ tasks.browse.pc = "idle"
    /\ loop_free("browse")
    /\ IF s3_ok
       THEN /\ tasks' = [tasks EXCEPT !.browse =
                            [pc |-> "register", files |-> list_prefix(bucket, prefix)]]
            /\ UNCHANGED resp
       ELSE /\ resp' = [status |-> 500]
            /\ UNCHANGED tasks
    /\ UNCHANGED <<bucket, URI_MAP_FILE, PERMANENT_URI_MAP_FILE, snapshot, removed, missed>>

\* GET /tree/{prefix}: the handler starts, checks the access key and lists
\* the tree.
tree_list(prefix, authenticated, s3_ok) ==
    /\ tasks.tree_view.pc = "idle"
    /\ loop_free("tree_view")
    /\ IF ~authenticated
       THEN /\ resp' = [status |-> 401]
            /\ UNCHANGED tasks
       ELSE IF s3_ok
       THEN /\ tasks' = [tasks EXCEPT !.tree_view =
                            [pc |-> "register",
                             files |-> get_recursive_file_tree(bucket, prefix)]]
            /\ UNCHANGED resp
       ELSE /\ resp' = [status |-> 500]
            /\ UNCHANGED tasks
    /\ UNCHANGED <<bucket, URI_MAP_FILE, PERMANENT_URI_MAP_FILE, snapshot, removed, missed>>

\* browse and tree_view: uri_map = load_uri_map(), then get_uri_for_key for
\* each file; the save follows whether or not an entry was added.
register(task) ==
    /\ task \in {"browse", "tree_view"}
    /\ tasks[task].pc = "register"
    /\ IF raises_JSONDecodeError(URI_MAP_FILE)
       THEN raised(task)
       ELSE \E o \in register_files(tasks[task].files, load_uri_map(URI_MAP_FILE)) :
               /\ tasks' = [tasks EXCEPT ![task] =
                               [pc |-> "save", uri_map |-> o.map,
                                before |-> URI_MAP_FILE,
                                returns |-> with_uri_ids(tasks[task].files, o.ids)]]
               /\ UNCHANGED resp
    /\ UNCHANGED <<bucket, URI_MAP_FILE, PERMANENT_URI_MAP_FILE, snapshot, removed, missed>>

\* GET /file/{uri_id}: the handler starts, loads the map and looks uri_id up.
get_file_load(uri_id) ==
    /\ tasks.get_file_by_permanent_uri.pc = "idle"
    /\ loop_free("get_file_by_permanent_uri")
    /\ IF raises_JSONDecodeError(URI_MAP_FILE)
       THEN /\ resp' = [status |-> 500]
            /\ UNCHANGED tasks
       ELSE IF uri_id \notin DOMAIN load_uri_map(URI_MAP_FILE)
       THEN /\ resp' = [status |-> 404, detail |-> "URI not found"]
            /\ UNCHANGED tasks
       ELSE /\ tasks' = [tasks EXCEPT !.get_file_by_permanent_uri =
                            [pc |-> "head", uri_id |-> uri_id,
                             s3_key |-> load_uri_map(URI_MAP_FILE)[uri_id]]]
            /\ UNCHANGED resp
    /\ UNCHANGED <<bucket, URI_MAP_FILE, PERMANENT_URI_MAP_FILE, snapshot, removed, missed>>

\* The try block of get_file_by_permanent_uri: head_object, then the
\* redirect; on NoSuchKey the map is loaded again and, when it holds uri_id,
\* saved without it.
get_file_head ==
    LET call == tasks.get_file_by_permanent_uri
        idle == [tasks EXCEPT !.get_file_by_permanent_uri = [pc |-> "idle"]]
    IN  /\ call.pc = "head"
        /\ \E head \in head_object(bucket, call.s3_key) :
              IF head = "ok"
              THEN /\ resp' = [status |-> 307,
                               location |-> generate_presigned_url(call.s3_key)]
                   /\ tasks' = idle
              ELSE IF head = "error"
              THEN /\ resp' = [status |-> 500, detail |-> "Failed to generate presigned URL"]
                   /\ tasks' = idle
              ELSE IF raises_JSONDecodeError(URI_MAP_FILE)
              THEN raised("get_file_by_permanent_uri")
              ELSE IF call.uri_id \in DOMAIN load_uri_map(URI_MAP_FILE)
              THEN /\ tasks' = [tasks EXCEPT !.get_file_by_permanent_uri =
                                   [pc |-> "save", uri_id |-> call.uri_id,
                                    uri_map |-> delitem(load_uri_map(URI_MAP_FILE),
                                                        call.uri_id),
                                    before |-> URI_MAP_FILE,
                                    returns |-> <<>>]]
                   /\ UNCHANGED resp
              ELSE /\ resp' = [status |-> 404, detail |-> "File no longer exists"]
                   /\ tasks' = idle
        /\ UNCHANGED <<bucket, URI_MAP_FILE, PERMANENT_URI_MAP_FILE, snapshot, removed,
                       missed>>

Request == \E authenticated \in BOOLEAN : request(authenticated)

BrowseList == \E prefix \in Prefixes : \E s3_ok \in BOOLEAN : browse_list(prefix, s3_ok)

TreeList ==
    \E prefix \in Prefixes : \E authenticated, s3_ok \in BOOLEAN :
        tree_list(prefix, authenticated, s3_ok)

Register == \E task \in Coroutines : register(task)

GetFileLoad == \E uri_id \in Ids : get_file_load(uri_id)

RunList == \E task \in Coroutines : \E s3_ok \in BOOLEAN : run_list(task, s3_ok)

RunLoad == \E task \in Coroutines : run_load(task)

RunOpen == \E task \in Coroutines : \E ok \in BOOLEAN : run_open(task, ok)

RunFlush == \E task \in Coroutines : run_flush(task)

RunClose == \E task \in Coroutines : \E ok \in BOOLEAN : run_close(task, ok)

\* The indexer, the on-demand route and the bucket.
LoopNext ==
    \/ PutObject
    \/ DeleteObject
    \/ wake
    \/ Request
    \/ RunList
    \/ RunLoad
    \/ RunOpen
    \/ RunFlush
    \/ RunClose

LoopSpec == Init /\ [][LoopNext]_vars

\* The indexer and all the handlers that load and save the map.
HandlersNext ==
    \/ LoopNext
    \/ BrowseList
    \/ TreeList
    \/ Register
    \/ GetFileLoad
    \/ get_file_head

HandlersSpec == Init /\ [][HandlersNext]_vars

\* The same with kills of the process.
CrashNext == LoopNext \/ crash

CrashSpec == Init /\ [][CrashNext]_vars

\* The steps that take a run on.
RunProgress == RunList \/ RunLoad \/ RunOpen \/ RunClose

\* The scheduling of the event loop: a coroutine that is running goes on to
\* its next await (no step of a run blocks for ever), and the loop, which
\* runs its ready callbacks in turn, resumes the indexer once its timer has
\* expired, however often requests come in.
LoopFairSpec == LoopSpec /\ WF_vars(RunProgress) /\ SF_vars(wake)

\* ------------------------------------------ get_uri_for_key, draw by draw
\* The keys that are files: neither directory markers nor .DS_Store files.
Files == {k \in Keys : ~is_directory_marker(k) /\ ~is_ds_store(k)}

\* The maps a call can be given: no key under two identifiers, files only.
Maps ==
    {m \in UNION {[D -> Files] : D \in SUBSET Ids} :
        \A i, j \in DOMAIN m : m[i] = m[j] => i = j}

\* The two functions of this code: get_uri_for_key of main.py and
\* get_permanent_uri_for_key of generate_permanent_uris.py.
GetOrCreate == {"get_uri_for_key", "get_permanent_uri_for_key"}

\* A call fn(s3_key, uri_map) is about to scan the map.  (before: the map as
\* passed, collisions: the draws that were in the map, both kept as history.)
DrawInit ==
    /\ bucket = [k \in Keys |-> ""]
    /\ URI_MAP_FILE = NoFile
    /\ PERMANENT_URI_MAP_FILE = NoFile
    /\ resp = [status |-> 0]
    /\ snapshot = <<>>
    /\ removed = <<>>
    /\ missed = {}
    /\ \E fn \in GetOrCreate : \E s3_key \in Files : \E m \in Maps :
          tasks = [get_uri_for_key |->
                      [pc |-> "scan", fn |-> fn, s3_key |-> s3_key, uri_map |-> m,
                       before |-> m]]

\* A loop test that never finds the candidate in the map.
never_collides(new_id, m) == FALSE

\* new_id in uri_map
collides(new_id, m) == new_id \in DOMAIN m

\* for uri_id, key in uri_map.items(): if key == s3_key: return uri_id
scan ==
    LET call == tasks.get_uri_for_key
        found == {uri_id \in DOMAIN call.uri_map : call.uri_map[uri_id] = call.s3_key}
    IN  /\ call.pc = "scan"
        /\ IF found # {}
           THEN \E uri_id \in found :
                   tasks' = [tasks EXCEPT !.get_uri_for_key =
                                [pc |-> "return", fn |-> call.fn, s3_key |-> call.s3_key,
                                 uri_map |-> call.uri_map, before |-> call.before,
                                 result |-> uri_id]]
           ELSE tasks' = [tasks EXCEPT !.get_uri_for_key.pc = "generate"]
        /\ UNCHANGED <<bucket, URI_MAP_FILE, PERMANENT_URI_MAP_FILE, resp, snapshot,
                       removed, missed>>

\* new_id = generate_nanoid()
generate ==
    LET call == tasks.get_uri_for_key
    IN  /\ call.pc = "generate"
        /\ \E new_id \in Ids :
              tasks' = [tasks EXCEPT !.get_uri_for_key =
                           [pc |-> "while", fn |-> call.fn, s3_key |-> call.s3_key,
                            uri_map |-> call.uri_map, before |-> call.before,
                            new_id |-> new_id, collisions |-> 0]]
        /\ UNCHANGED <<bucket, URI_MAP_FILE, PERMANENT_URI_MAP_FILE, resp, snapshot,
                       removed, missed>>

\* while new_id in uri_map: new_id = generate_nanoid()
\* The loop has no bound; the count of collisions stops at MaxCollisions.
redraw ==
    LET call == tasks.get_uri_for_key
    IN  /\ call.pc = "while"
        /\ collides(call.new_id, call.uri_map)
        /\ \E new_id \in Ids :
              tasks' = [tasks EXCEPT !.get_uri_for_key.new_id = new_id,
                                     !.get_uri_for_key.collisions =
                                         IF @ < MaxCollisions THEN @ + 1 ELSE @]
        /\ UNCHANGED <<bucket, URI_MAP_FILE, PERMANENT_URI_MAP_FILE, resp, snapshot,
                       removed, missed>>

\* uri_map[new_id] = s3_key; return new_id
insert ==
    LET call == tasks.get_uri_for_key
    IN  /\ call.pc = "while"
        /\ ~collides(call.new_id, call.uri_map)
        /\ tasks' = [tasks EXCEPT !.get_uri_for_key =
                        [pc |-> "return", fn |-> call.fn, s3_key |-> call.s3_key,
                         uri_map |-> setitem(call.uri_map, call.new_id, call.s3_key),
                         before |-> call.before, result |-> call.new_id,
                         collisions |-> call.collisions]]
        /\ UNCHANGED <<bucket, URI_MAP_FILE, PERMANENT_URI_MAP_FILE, resp, snapshot,
                       removed, missed>>

\* One call of get_uri_for_key.
DrawNext == scan \/ generate \/ redraw \/ insert

DrawSpec == DrawInit /\ [][DrawNext]_vars

\* ------------------------------------------- the runs and their listings
\* The entries id -> key of the map as loaded whose key the listing of a run
\* that completed does not hold.
missed_by(all_files, loaded) ==
    {<<i, loaded[i]>> : i \in {j \in DOMAIN loaded :
                                  loaded[j] \notin {all_files[n].Key : n \in 1..Len(all_files)}}}

\* A scheduled run, the entries its listing missed recorded.
TrackedScheduledRun ==
    /\ \E s3_ok \in BOOLEAN :
          /\ bucket_uri_indexer(s3_ok)
          /\ missed' = IF s3_ok
                       THEN missed \cup missed_by(list_objects_v2(bucket, <<>>), uri_map)
                       ELSE missed
    /\ UNCHANGED tasks

\* An on-demand run, the entries its listing missed recorded.
TrackedOnDemandRun ==
    /\ \E authenticated, s3_ok \in BOOLEAN :
          /\ index_new_route(authenticated, s3_ok)
          /\ missed' = IF authenticated /\ s3_ok
                       THEN missed \cup missed_by(list_objects_v2(bucket, <<>>), uri_map)
                       ELSE missed
    /\ UNCHANGED tasks

\* The indexing runs alone over a bucket whose listing changes.  The runs see
\* the bucket through its listing only: a key that a listing misses and a
\* later listing holds again is here a key deleted and uploaded again.
RunsNext ==
    \/ PutObject
    \/ DeleteObject
    \/ TrackedScheduledRun
    \/ TrackedOnDemandRun

RunsSpec == Init /\ [][RunsNext]_vars

\* ------------------------------------------------- the map store alone
\* save_uri_map(m) of main.py on data/uri.json.
store_save(m) ==
    /\ URI_MAP_FILE' = save_uri_map(m)
    /\ UNCHANGED <<bucket, PERMANENT_URI_MAP_FILE, resp, snapshot, removed, tasks, missed>>

\* load_uri_map() of main.py; the map it returns is kept in resp.
store_load ==
    /\ resp' = [status |-> 0, uri_map |-> load_uri_map(URI_MAP_FILE)]
    /\ UNCHANGED <<bucket, URI_MAP_FILE, PERMANENT_URI_MAP_FILE, snapshot, removed,
                   tasks, missed>>

\* save_permanent_uri_map(m) of generate_permanent_uris.py on
\* data/permanent_uri_map.json.
store_save_permanent(m) ==
    /\ PERMANENT_URI_MAP_FILE' = save_uri_map(m)
    /\ UNCHANGED <<bucket, URI_MAP_FILE, resp, snapshot, removed, tasks, missed>>

\* load_permanent_uri_map(); the map it returns is kept in resp.
store_load_permanent ==
    /\ resp' = [status |-> 0, permanent_uri_map |-> load_uri_map(PERMANENT_URI_MAP_FILE)]
    /\ UNCHANGED <<bucket, URI_MAP_FILE, PERMANENT_URI_MAP_FILE, snapshot, removed,
                   tasks, missed>>

StoreSave == \E m \in Maps : store_save(m)

StoreSavePermanent == \E m \in Maps : store_save_permanent(m)

\* Loads and whole saves of the two map files, in any order.
StoreNext ==
    \/ StoreSave
    \/ store_load
    \/ StoreSavePermanent
    \/ store_load_permanent

StoreSpec == Init /\ [][StoreNext]_vars

\* ------------------------------------------------------------- the claims
\* The keys of a list of objects.
keys_of(files) == {files[n].Key : n \in 1..Len(files)}

\* A step of browse or tree_view that answered with its page.
Registered == resp'.status = 200 /\ "files" \in DOMAIN resp' /\ (Browse \/ TreeView)

\* A step of get_file_by_permanent_uri(uri_id).
Resolved(uri_id) ==
    resp'.status \in {307, 404, 500} /\ get_file_by_permanent_uri(uri_id)

\* C1: in every reachable state no storage key is the value of more than one
\* identifier of the map in data/uri.json.
C1_OneIdentifierPerKey ==
    \A i, j \in DOMAIN uri_map : uri_map[i] = uri_map[j] => i = j

\* C1: both files are mapped, after indexing runs and a self-healing deletion.
C1_Witness ==
    /\ Cardinality(DOMAIN uri_map) = 2
    /\ snapshot # <<>>
    /\ removed # <<>>

\* C2, as claimed: once identifier i is assigned to key k the assignment
\* lasts: i stays mapped to k over every operation, every later registration
\* of k returns i, and no resolution of i answers not-found.
C2_Original ==
    [][\A i \in DOMAIN uri_map :
          /\ i \in DOMAIN uri_map' /\ uri_map'[i] = uri_map[i]
          /\ Registered =>
                \A n \in 1..Len(resp'.files) :
                    resp'.files[n].Key = uri_map[i] => resp'.files[n].permanent_uri_id = i
          /\ Resolved(i) => resp'.status # 404]_vars

\* C2, amended: while i is mapped to k, every registration of k returns i, a
\* resolution of i whose existence check succeeds redirects to k, and i stays
\* mapped to k over every operation but one: a resolution of i whose
\* existence check reports k missing, which removes the entry.
C2_StableUntilSelfHealing ==
    [][\A i \in DOMAIN uri_map :
          /\ \/ i \in DOMAIN uri_map' /\ uri_map'[i] = uri_map[i]
             \/ /\ Resolved(i)
                /\ ~has_object(bucket, uri_map[i])
                /\ resp' = [status |-> 404, detail |-> "File no longer exists"]
          /\ Registered =>
                \A n \in 1..Len(resp'.files) :
                    resp'.files[n].Key = uri_map[i] => resp'.files[n].permanent_uri_id = i
          /\ (Resolved(i) /\ has_object(bucket, uri_map[i]) /\ resp'.status # 500)
                => resp' = [status |-> 307, location |-> <<"presigned", uri_map[i]>>]]_vars

\* C2: a key was registered again after the self-healing deletion of its
\* identifier, and the page shows it under another identifier.
C2_Witness ==
    /\ removed # <<>>
    /\ "files" \in DOMAIN resp
    /\ \E n \in DOMAIN resp.files :
          /\ resp.files[n].Key = removed[2]
          /\ resp.files[n].permanent_uri_id # removed[1]

\* C3, as claimed: an identifier that was removed from the map is never
\* bound to another key afterwards.
C3_Original ==
    (removed # <<>> /\ removed[1] \in DOMAIN uri_map) => uri_map[removed[1]] = removed[2]

\* C3, amended: the key of an identifier never changes while the identifier
\* stays in the map (no operation rewrites an entry); nothing keeps a removed
\* identifier from being drawn again for another key.
C3_KeyFixedWhileMapped ==
    [][\A i \in DOMAIN uri_map : i \in DOMAIN uri_map' => uri_map'[i] = uri_map[i]]_vars

\* C3: an identifier removed by a self-healing deletion is in the map again,
\* bound to another key.
C3_Witness ==
    /\ removed # <<>>
    /\ removed[1] \in DOMAIN uri_map
    /\ uri_map[removed[1]] # removed[2]

\* The response of an indexing run that completed: the scheduled run's
\* log line or the on-demand run's stats.
IsRunResponse(r) ==
    \/ "stats" \in DOMAIN r
    \/ /\ "log" \in DOMAIN r
       /\ r.log \in {"Updated URI mappings during hourly scan",
                     "No new files found during hourly scan"}

\* A step of a scheduled or on-demand indexing run that completed.
RunStep ==
    IsRunResponse(resp') /\ (bucket_uri_indexer(TRUE) \/ index_new_route(TRUE, TRUE))

\* The run reports that nothing changed.
ReportsNoChange(r) ==
    IF "stats" \in DOMAIN r
    THEN r.stats.new_uris_added = 0
    ELSE r.log = "No new files found during hourly scan"

\* The identifiers of key in map m.
ids_of(m, key) == {i \in DOMAIN m : m[i] = key}

\* C4: move detection.  When the previous run listed content of some
\* fingerprint under key a and this run lists it under another key b (a is
\* gone, b is new), every identifier mapped to a is rewritten to b and no
\* mapping to a is left.
C4_MoveDetection ==
    [][\A i \in DOMAIN uri_map : \A n \in DOMAIN snapshot : \A m \in DOMAIN snapshot' :
          ( /\ snapshot[n].Key = uri_map[i]
            /\ snapshot'[m].ETag = snapshot[n].ETag
            /\ snapshot'[m].Key # snapshot[n].Key
            /\ snapshot[n].Key \notin keys_of(snapshot')
            /\ snapshot'[m].Key \notin keys_of(snapshot) )
          => /\ i \in DOMAIN uri_map'
             /\ uri_map'[i] = snapshot'[m].Key
             /\ ids_of(uri_map', snapshot[n].Key) = {}]_vars

\* C5: deletion pruning.  When a mapped key that the previous run listed is
\* absent from this run's listing and no listed key carries its fingerprint,
\* the run removes the key's identifier from the map.
C5_DeletionPruning ==
    [][\A i \in DOMAIN uri_map : \A n \in DOMAIN snapshot :
          ( /\ snapshot[n].Key = uri_map[i]
            /\ snapshot' # snapshot
            /\ snapshot[n].Key \notin keys_of(snapshot')
            /\ \A m \in DOMAIN snapshot' : snapshot'[m].ETag # snapshot[n].ETag )
          => i \notin DOMAIN uri_map']_vars

\* The keys the indexing skips, read off the key's last segment: a directory
\* marker ends in "/", a Finder file is named .DS_Store in any case.
IsSkippedKey(key) ==
    key[Len(key)] = "/" \/ key[Len(key)] \in {".DS_Store", ".ds_store"}

\* The run gave each key of new_keys exactly one identifier, and made no
\* other new entry.
OneNewEntryPerKey(new_keys) ==
    /\ \A k \in new_keys : Cardinality(ids_of(uri_map', k)) = 1
    /\ {uri_map'[i] : i \in DOMAIN uri_map' \ DOMAIN uri_map} = new_keys
    /\ Cardinality(DOMAIN uri_map' \ DOMAIN uri_map) = Cardinality(new_keys)

\* C6, as claimed: after an indexing run every key of the listing that had no
\* identifier before the run has exactly one, and the run made exactly one
\* new entry per such key and no other.
C6_Original ==
    [][RunStep =>
          OneNewEntryPerKey({k \in keys_of(list_objects_v2(bucket, <<>>)) :
                                ids_of(uri_map, k) = {}})]_vars

\* C6, amended: after an indexing run every key of the listing that is
\* neither a directory marker nor a .DS_Store file and had no identifier
\* before the run has exactly one; the run made exactly one new entry per such
\* key and no other, so a skipped key gets none.
C6_NewKeyAssignment ==
    [][RunStep =>
          OneNewEntryPerKey({k \in keys_of(list_objects_v2(bucket, <<>>)) :
                                ~IsSkippedKey(k) /\ ids_of(uri_map, k) = {}})]_vars

\* C6: a scheduled run has just given both files of the listing an
\* identifier, with a directory marker in the bucket.
C6_Witness ==
    /\ resp = [status |-> 0, log |-> "Updated URI mappings during hourly scan"]
    /\ Len(snapshot) = 2
    /\ Cardinality(DOMAIN uri_map) = 2
    /\ has_object(bucket, <<"d", "/">>)

\* C7: an indexing run that follows a completed run over the same files, on
\* the map the first run left, changes nothing in the map file and reports
\* that nothing changed.
C7_Idempotent ==
    [][( /\ IsRunResponse(resp)
         /\ snapshot = considered(list_objects_v2(bucket, <<>>))
         /\ RunStep )
       => /\ URI_MAP_FILE' = URI_MAP_FILE
          /\ ReportsNoChange(resp')]_vars

\* C7: a run has reported no change over a listing of two files, both mapped.
C7_Witness ==
    /\ IsRunResponse(resp)
    /\ ReportsNoChange(resp)
    /\ Len(snapshot) = 2
    /\ keys_of(snapshot) = values(uri_map)

C9_ResolveFrame ==
    [][\A i \in Ids :
          Resolved(i) =>
             /\ i \notin DOMAIN uri_map =>
                   /\ resp' = [status |-> 404, detail |-> "URI not found"]
                   /\ URI_MAP_FILE' = URI_MAP_FILE
             /\ (i \in DOMAIN uri_map /\ has_object(bucket, uri_map[i]) /\ resp'.status # 500) =>
                   /\ resp' = [status |-> 307, location |-> <<"presigned", uri_map[i]>>]
                   /\ URI_MAP_FILE' = URI_MAP_FILE]_vars

\* C9: a resolution has just redirected to the key of a mapped identifier.
C9_Witness ==
    /\ resp.status = 307
    /\ \E i \in DOMAIN uri_map : resp.location = <<"presigned", uri_map[i]>>

\* C10: once browse or tree_view has answered, the map file holds, for every
\* file of the page, the entry from the identifier shown to the file's key.
C10_RegisteredIsPersisted ==
    "files" \in DOMAIN resp =>
        \A n \in DOMAIN resp.files :
            /\ resp.files[n].permanent_uri_id \in DOMAIN uri_map
            /\ uri_map[resp.files[n].permanent_uri_id] = resp.files[n].Key

\* C10: a tree view has just shown two files with their identifiers.
C10_Witness ==
    /\ "files" \in DOMAIN resp
    /\ Len(resp.files) = 2

\* The map of a map of full URLs: identifier -> path.
paths_of(full_url_map) == [i \in DOMAIN full_url_map |-> full_url_map[i].path]

\* C11: a load that runs while a save of the map is under way returns the
\* whole map from before the save or the whole map the save writes, never a
\* partly written one (here: the load of generate_full_url_map.py during the
\* save of generate_permanent_uris.py).
C11_AtomicSave ==
    [][(tasks.generate_permanent_uris.pc = "write_text" /\ generate_full_url_map)
       => /\ "full_url_map" \in DOMAIN resp'
          /\ paths_of(resp'.full_url_map) \in {tasks.generate_permanent_uris.before,
                                               tasks.generate_permanent_uris.uri_map}]_vars

\* The positions of a run.
InRun(task) == tasks[task].pc \in {"list", "load", "save", "write_text"}

\* The positions between the load of the map and the end of its save.
InSave(task) == tasks[task].pc \in {"save", "write_text"}

\* C12: when the process is killed during save_uri_map, the map file holds
\* afterwards the whole old map or the whole new map, never a half-written
\* text.
C12_AtomicUnderCrash ==
    [][\A task \in Coroutines :
          (crash /\ tasks[task].pc = "write_text")
          => URI_MAP_FILE' \in {tasks[task].before, save_uri_map(tasks[task].uri_map)}]_vars

\* C13: the scheduled run and the on-demand run are never in progress
\* together; in particular neither is anywhere in its run while the other is
\* between its load and its save.
C13_OneRunAtATime ==
    ~(InRun("bucket_uri_indexer") /\ InRun("index_new_route"))

\* C13: an on-demand run is in the middle of its save, a part of the text
\* written, while the indexer sleeps with its timer running.
C13_Witness ==
    /\ tasks.index_new_route.pc = "write_text"
    /\ tasks.bucket_uri_indexer.pc = "sleep"
    /\ raises_JSONDecodeError(URI_MAP_FILE)
    /\ URI_MAP_FILE.text # {}

\* A step in which the run of `task` raises: at the listing, at the load, at
\* the open or at the write of the save.
Raises(task) ==
    \/ run_list(task, FALSE)
    \/ raises_JSONDecodeError(URI_MAP_FILE) /\ run_load(task)
    \/ run_open(task, FALSE)
    \/ run_close(task, FALSE)

\* C14: a scheduled run that raises (at the listing, the load or the save)
\* takes the indexer to its sleep and not out of its loop; the next run
\* begins only out of the sleep, when the interval has passed, so no run is
\* tried a second time in the same tick; and after every sleep the next run
\* does begin.
C14_SchedulerSurvivesFailure ==
    /\ [][/\ Raises("bucket_uri_indexer") => tasks'.bucket_uri_indexer.pc = "sleep"
          /\ (tasks'.bucket_uri_indexer.pc = "list" /\ tasks.bucket_uri_indexer.pc # "list")
                => (tasks.bucket_uri_indexer.pc = "sleep" /\ wake)]_vars
    /\ [](InRun("bucket_uri_indexer") \/ tasks.bucket_uri_indexer.pc = "sleep")
    /\ (tasks.bucket_uri_indexer.pc = "sleep") ~> (tasks.bucket_uri_indexer.pc = "list")

\* C14: the indexer sleeps after a run that raised at its load, the map file
\* being cut short.
C14_Witness ==
    /\ tasks.bucket_uri_indexer.pc = "sleep"
    /\ resp = [status |-> 0, log |-> "Error during URI indexing"]
    /\ raises_JSONDecodeError(URI_MAP_FILE)

\* C19: when a run fails, at its listing or at the write of the map, the map
\* file is afterwards what it was before the run: nothing of the run's map is
\* in it, and the next run loads the last map that was saved whole.
C19_FailedRunCommitsNothing ==
    [][\A task \in Coroutines :
          Raises(task)
          => /\ URI_MAP_FILE' = IF InSave(task) THEN tasks[task].before ELSE URI_MAP_FILE
             /\ ~raises_JSONDecodeError(URI_MAP_FILE')]_vars

\* The get_uri_for_key call that is followed draw by draw.
Call == tasks.get_uri_for_key

\* C15: a get_uri_for_key call for a key without an identifier returns an
\* identifier that was not in the map, with the key stored under it and every
\* earlier entry unchanged; a candidate that is in the map is drawn again and
\* never stored.  (The outcome is one of those the routes' one-step
\* get_uri_for_key allows.)
C15_GetOrCreate ==
    /\ []((Call.pc = "return" /\ Call.s3_key \notin values(Call.before))
          => /\ Call.result \notin DOMAIN Call.before
             /\ DOMAIN Call.uri_map = DOMAIN Call.before \cup {Call.result}
             /\ Call.uri_map[Call.result] = Call.s3_key
             /\ \A i \in DOMAIN Call.before : Call.uri_map[i] = Call.before[i]
             /\ [id |-> Call.result, map |-> Call.uri_map]
                   \in get_uri_for_key(Call.s3_key, Call.before))
    /\ [][(Call.pc = "while" /\ Call.new_id \in DOMAIN Call.uri_map)
          => /\ tasks'.get_uri_for_key.pc = "while"
             /\ tasks'.get_uri_for_key.uri_map = Call.uri_map]_vars

\* C15: a call has returned a new identifier after two collisions, the map
\* holding another entry from before.
C15_Witness ==
    LET call == tasks.get_uri_for_key
    IN  /\ call.pc = "return"
        /\ call.s3_key \notin values(call.before)
        /\ call.before # EmptyMap
        /\ call.collisions = 2

\* C16: a call whose draws have collided MaxCollisions times, and collide
\* again, ends with the outcome CollisionExhausted.
C16_CollisionExhausted ==
    LET call == tasks.get_uri_for_key
    IN  ( /\ call.pc = "while"
          /\ call.collisions = MaxCollisions
          /\ call.new_id \in DOMAIN call.uri_map )
        => call.pc = "CollisionExhausted"

\* The keys of a listing that add_uris_for_new_files gives an identifier:
\* not skipped, and not a value of the map as loaded.
NewKeys(all_files, loaded) ==
    {k \in keys_of(all_files) : ~IsSkippedKey(k) /\ k \notin values(loaded)}

\* C17: a run goes on to save_uri_map exactly when add_uris_for_new_files
\* added an entry; the map it then writes is the loaded map and at least one
\* new entry; and the map file changes in no step but those of a save, so a
\* run that finds nothing new writes nothing.
C17_SaveIffChanged ==
    /\ [](\A task \in Coroutines :
             InSave(task) =>
                /\ DOMAIN tasks[task].uri_map # DOMAIN load_uri_map(tasks[task].before)
                /\ \A i \in DOMAIN load_uri_map(tasks[task].before) :
                      /\ i \in DOMAIN tasks[task].uri_map
                      /\ tasks[task].uri_map[i] = load_uri_map(tasks[task].before)[i])
    /\ [][\A task \in Coroutines :
             (run_load(task) /\ ~raises_JSONDecodeError(URI_MAP_FILE))
             => (tasks'[task].pc = "save"
                    <=> NewKeys(tasks[task].all_files, uri_map) # {})]_vars
    /\ [][URI_MAP_FILE' # URI_MAP_FILE => \E task \in Coroutines : InSave(task)]_vars

\* C17: the indexer has ended a run that found nothing new over a bucket
\* that holds a directory marker, and there is still no map file.
C17_Witness ==
    /\ tasks.bucket_uri_indexer.pc = "sleep"
    /\ resp = [status |-> 0, log |-> "No new files found during hourly scan"]
    /\ ~URI_MAP_FILE.exists
    /\ has_object(bucket, <<"d", "/">>)

\* C18: an entry id -> key whose key one run's listing missed and the latest
\* run's listing holds again is still in the map after these runs, and the key
\* has no other identifier.
C18_SpuriousListingChanges ==
    \A e \in missed :
        (IsRunResponse(resp) /\ e[2] \in keys_of(snapshot))
        => /\ e[1] \in DOMAIN uri_map
           /\ uri_map[e[1]] = e[2]
           /\ ids_of(uri_map, e[2]) = {e[1]}

\* C18: a run has just reported no change over a listing that holds a key an
\* earlier run's listing had missed.
C18_Witness ==
    /\ IsRunResponse(resp)
    /\ ReportsNoChange(resp)
    /\ \E e \in missed : e[2] \in keys_of(snapshot) /\ has_object(bucket, e[2])

\* C20: every resolution that does not redirect answers not-found, whatever
\* the object store raised.
C20_FailuresAreNotFound ==
    [][\A i \in Ids : (Resolved(i) /\ resp'.status # 307) => resp'.status = 404]_vars

\* C21: a load when no map file exists returns the empty map; after
\* save_uri_map(m) a load returns exactly m, whatever the file held before;
\* and what a load returns is what the latest save wrote.
C21_StoreRoundTrip ==
    /\ [][\A m \in Maps : store_save(m) => load_uri_map(URI_MAP_FILE') = m]_vars
    /\ [][store_load =>
             /\ ~URI_MAP_FILE.exists => resp'.uri_map = EmptyMap
             /\ URI_MAP_FILE.exists => save_uri_map(resp'.uri_map) = URI_MAP_FILE]_vars

\* C21: a load has returned a map of two entries, the map file having held
\* another map before the latest save (the other file still holds one).
C21_Witness ==
    /\ "uri_map" \in DOMAIN resp
    /\ Cardinality(DOMAIN resp.uri_map) = 2
    /\ resp.uri_map = uri_map
    /\ PERMANENT_URI_MAP_FILE.exists
    /\ permanent_uri_map # uri_map

\* C22: no update is lost.  When an operation comes to its save, the map file
\* is still what the operation loaded, no other operation having saved in
\* between; and after the save every entry the file held is in it still,
\* but for the entry of the identifier a self-healing deletion removes.
C22_NoLostUpdate ==
    /\ [](\A task \in Coroutines :
             tasks[task].pc = "save" => URI_MAP_FILE = tasks[task].before)
    /\ [][\A task \in Coroutines :
             run_close(task, TRUE)
             => \A i \in DOMAIN load_uri_map(tasks[task].before) :
                   \/ /\ i \in DOMAIN uri_map'
                      /\ uri_map'[i] = load_uri_map(tasks[task].before)[i]
                   \/ /\ task = "get_file_by_permanent_uri"
                      /\ tasks[task].uri_id = i]_vars

\* C22: a browse or tree view of one file has just saved, while the indexer
\* sleeps after a run, and the map file holds the entry of that file and, as
\* before this save, the entry another operation had saved.
C22_Witness ==
    /\ "files" \in DOMAIN resp
    /\ Len(resp.files) = 1
    /\ tasks.bucket_uri_indexer.pc = "sleep"
    /\ Cardinality(DOMAIN uri_map) = 2
    /\ \E i \in DOMAIN uri_map : uri_map[i] # resp.files[1].Key

\* C23: no step changes the key of an entry, and a step after which an
\* entry is gone is never a scheduled run, an on-demand run, a browse or a
\* tree view: it is a resolution of that entry's identifier whose existence
\* check reported the key missing, and every other entry is in the map
\* after it.
C23_OnlyResolutionRemoves ==
    [][\A i \in DOMAIN uri_map :
          /\ i \in DOMAIN uri_map' => uri_map'[i] = uri_map[i]
          /\ i \notin DOMAIN uri_map'
             => /\ ~(ScheduledRun \/ OnDemandRun \/ Browse \/ TreeView)
                /\ get_file_by_permanent_uri(i)
                /\ "NoSuchKey" \in head_object(bucket, uri_map[i])
                /\ \A j \in DOMAIN uri_map \ {i} : j \in DOMAIN uri_map']_vars

\* C23: a run has answered after a self-healing deletion: the removed
\* identifier is not in the map, and the entry of the other file is.
C23_Witness ==
    /\ IsRunResponse(resp)
    /\ removed # <<>>
    /\ removed[1] \notin DOMAIN uri_map
    /\ Cardinality(DOMAIN uri_map) = 1
    /\ removed[2] \notin values(uri_map)

\* C24: in every reachable state no key of the map is a directory marker or
\* a .DS_Store file.
C24_NoSkippedKeyInMap ==
    \A i \in DOMAIN uri_map : ~IsSkippedKey(uri_map[i])

\* C24: both files are in the map, after a run, while the bucket holds a
\* directory marker and a .DS_Store file, and the last page shown is of the
\* prefix that holds them.
C24_Witness ==
    /\ has_object(bucket, <<"d", "/">>)
    /\ has_object(bucket, <<"d", "/", ".DS_Store">>)
    /\ Cardinality(DOMAIN uri_map) = 2
    /\ Len(snapshot) = 2
    /\ "files" \in DOMAIN resp
    /\ keys_of(resp.files) = {<<"d", "/", "b">>}

=============================================================================
